---- MODULE Spec2Model ----
(***************************************************************************)
(* Model of the two advisory handlers of server.js:                        *)
(*   POST /api/ask-ai        (general advice)                              *)
(*   POST /api/smart-suggest (weekly plan)                                 *)
(* together with the pure code they run: the row normaliser, the freshness *)
(* override, the metrics and the section parser `extract`.                 *)
(*                                                                         *)
(* Text is a sequence of tokens.  The three emoji, the blank, the newline  *)
(* and the three section titles are tokens of their own; every fixed       *)
(* sentence of the source is one token named after what it says.  JS       *)
(* numbers are records [nan, v]: an integer v, or NaN.                     *)
(***************************************************************************)
EXTENDS Integers, Sequences, FiniteSets, TLC

VARIABLES
    genAI,        \* module-level handle: TRUE iff the constructor returned
    sheet,        \* the row store: the raw rows getRows() returns
    modelText,    \* the text generateContent yields when it succeeds
    pc,           \* position of the handler: the await it is suspended at
    kind,         \* which route is being served
    body,         \* req.body
    inventory,    \* const inventory
    urgent,       \* const urgent       (smart-suggest)
    avgDays,      \* const avgDays      (smart-suggest)
    totalValue,   \* const totalValue   (smart-suggest)
    prompt,       \* argument of the generateContent call in flight
    sent,         \* the bodies passed to res.json, in order
    log,          \* console.error lines
    modelCalls,   \* number of generateContent calls issued
    extractCalls, \* number of extract(...) invocations
    loaded,       \* TRUE once getRows() has returned
    state,        \* orchestrator state reached by the request
    reqs          \* the requests in flight when several are served at once:
                  \* the locals of each handler invocation

vars == <<genAI, sheet, modelText, pc, kind, body, inventory, urgent, avgDays,
          totalValue, prompt, sent, log, modelCalls, extractCalls, loaded, state,
          reqs>>

-----------------------------------------------------------------------------
(* Bounds *)

\* longest sheet (number of rows) considered
MaxRows == 2

\* longest sheet considered while several requests are served at once
MaxStore == 1

-----------------------------------------------------------------------------
(* JS values *)

Undefined == "<undefined>"

Num(n) == [nan |-> FALSE, v |-> n]

NaN == [nan |-> TRUE, v |-> 0]

\* The numerals a cell may hold, with the number each denotes.
NumeralValue ==
    ("0" :> 0) @@ ("2" :> 2) @@ ("3" :> 3) @@ ("4" :> 4) @@ ("5" :> 5) @@
    ("7" :> 7) @@ ("39" :> 39) @@ ("40" :> 40) @@ ("50" :> 50) @@ ("80" :> 80) @@
    ("100" :> 100) @@ ("120" :> 120) @@ ("-5" :> -5)

\* Number(x): a numeral denotes its number, the empty string 0, anything
\* else (undefined, other text) NaN.
ToNumber(x) ==
    IF x \in DOMAIN NumeralValue THEN Num(NumeralValue[x])
    ELSE IF x = "" THEN Num(0)
    ELSE NaN

\* x || d on numbers: NaN and 0 are falsy.
OrDefault(x, d) == IF x.nan \/ x.v = 0 THEN Num(d) ELSE x

\* s || d on strings: undefined and "" are falsy.
StrOr(s, d) == IF s = Undefined \/ s = "" THEN d ELSE s

\* `${x}` of a number.
FmtNum(x) ==
    IF x.nan THEN "NaN"
    ELSE CHOOSE s \in DOMAIN NumeralValue : NumeralValue[s] = x.v

\* x < n for a JS number x and an integer n: false on NaN.
Lt(x, n) == ~x.nan /\ x.v < n

\* a + b
Add(a, b) == IF a.nan \/ b.nan THEN NaN ELSE Num(a.v + b.v)

\* Math.round(num / den), den > 0: halves round towards +Infinity.
RoundDiv(num, den) == (2 * num + den) \div (2 * den)

\* Math.max(1, x): NaN if x is NaN.
Max1(x) == IF x.nan THEN NaN ELSE IF x.v < 1 THEN Num(1) ELSE x

-----------------------------------------------------------------------------
(* Dates *)

MsPerDay == 1000 * 60 * 60 * 24

\* The calendar dates a cell may hold, as days since the epoch day of the
\* model (a date-only string parses to UTC midnight of its day).
DateDay ==
    ("day+0" :> 0) @@ ("day+5" :> 5) @@ ("day+10" :> 10) @@ ("day-2" :> -2)

\* new Date(expiry).getTime()
DateMs(expiry) ==
    IF expiry \in DOMAIN DateDay THEN Num(DateDay[expiry] * MsPerDay) ELSE NaN

\* The instants new Date() may return while a request is served: noon of
\* day 0 and one millisecond later.
Nows == {MsPerDay \div 2, MsPerDay \div 2 + 1}


-----------------------------------------------------------------------------
(* The row store *)

\* A raw row: what r.get(field) returns for each column (a string, or
\* undefined when the cell is empty or the column is absent).
Row(name, price, weight, expiry, remaining, averageDays, shelfLife) ==
    [name |-> name, price |-> price, weight |-> weight, expiry |-> expiry,
     remaining |-> remaining, averageDays |-> averageDays,
     shelfLife |-> shelfLife]

\* Representative rows: every default, both urgency boundaries, an expiry
\* on either side of a rounding step, a past expiry, an unparseable expiry,
\* and out-of-range numbers.
RowPool ==
    { Row("Milk", "50",      "1L",      Undefined, "39",      "2",       "5"),
      Row("Eggs", "abc",     Undefined, "day+5",   "40",      Undefined, "4"),
      Row("Rice", "120",     "2kg",     "",        "40",      "3",       "5"),
      Row("Tofu", Undefined, "",        "soon",    "80",      "4",       "2"),
      Row("Fish", "-5",      "300g",    "day-2",   "120",     "-5",      "0"),
      Row("Jam",  "3",       Undefined, "day+10",  Undefined, "abc",     "abc") }

RECURSIVE SeqsUpTo(_, _)
\* All sequences over S of length at most n.
SeqsUpTo(S, n) ==
    IF n = 0 THEN {<<>>}
    ELSE LET shorter == SeqsUpTo(S, n - 1)
         IN  shorter \cup {Append(s, x) : s \in {t \in shorter : Len(t) = n - 1}, x \in S}

Sheets == SeqsUpTo(RowPool, MaxRows)

-----------------------------------------------------------------------------
(* Normaliser and freshness override *)

\* The shelfLife of a row in /api/smart-suggest, `now` being what new Date()
\* returned for this row.
shelfLifeOf(r, now) ==
    LET stored == OrDefault(ToNumber(r.shelfLife), 7)
        exp    == DateMs(r.expiry)
    IN  IF r.expiry # Undefined /\ r.expiry # ""
        THEN IF exp.nan THEN Max1(NaN)
             ELSE Max1(Num(RoundDiv(exp.v - now, MsPerDay)))
        ELSE stored

\* One element of rows.map(...) in /api/smart-suggest.
suggestItem(r, now) ==
    [name        |-> r.name,
     price       |-> OrDefault(ToNumber(r.price), 0),
     remaining   |-> OrDefault(ToNumber(r.remaining), 0),
     shelfLife   |-> shelfLifeOf(r, now),
     averageDays |-> OrDefault(ToNumber(r.averageDays), 3)]

\* One element of rows.map(...) in /api/ask-ai.
askItem(r) ==
    [name      |-> r.name,
     price     |-> OrDefault(ToNumber(r.price), 0),
     weight    |-> StrOr(r.weight, ""),
     expiry    |-> StrOr(r.expiry, ""),
     remaining |-> OrDefault(ToNumber(r.remaining), 0),
     shelfLife |-> OrDefault(ToNumber(r.shelfLife), 7)]

RECURSIVE suggestInventory(_, _)
\* rows.map(...) of /api/smart-suggest; nows[i] is the clock read for row i.
suggestInventory(rows, nows) ==
    IF rows = <<>> THEN <<>>
    ELSE LET n == Len(rows)
         IN  Append(suggestInventory(SubSeq(rows, 1, n - 1), SubSeq(nows, 1, n - 1)),
                    suggestItem(rows[n], nows[n]))

RECURSIVE askInventory(_)
\* rows.map(...) of /api/ask-ai.
askInventory(rows) ==
    IF rows = <<>> THEN <<>>
    ELSE LET n == Len(rows)
         IN  Append(askInventory(SubSeq(rows, 1, n - 1)), askItem(rows[n]))

\* The clock readings of one rows.map: one per row, never going back.
ClockReadings(n) ==
    {c \in SeqsUpTo(Nows, n) : Len(c) = n /\ \A i \in 1..(n - 1) : c[i] <= c[i + 1]}

-----------------------------------------------------------------------------
(* Metrics *)

\* IsUrgent with the comparisons made inclusive: the variant C10 must reject.
IsUrgentInclusive(i) ==
    (~i.remaining.nan /\ i.remaining.v <= 40) \/ (~i.shelfLife.nan /\ i.shelfLife.v <= 5)

\* The predicate of inventory.filter(...).
IsUrgent(i) == Lt(i.remaining, 40) \/ Lt(i.shelfLife, 5)

RECURSIVE urgentOf(_)
\* inventory.filter((i) => i.remaining < 40 || i.shelfLife < 5)
urgentOf(inv) ==
    IF inv = <<>> THEN <<>>
    ELSE LET n    == Len(inv)
             rest == urgentOf(SubSeq(inv, 1, n - 1))
         IN  IF IsUrgent(inv[n]) THEN Append(rest, inv[n]) ELSE rest

RECURSIVE sumAverageDays(_)
\* inventory.reduce((a, b) => a + b.averageDays, 0)
sumAverageDays(inv) ==
    IF inv = <<>> THEN Num(0)
    ELSE LET n == Len(inv)
         IN  Add(sumAverageDays(SubSeq(inv, 1, n - 1)), inv[n].averageDays)

\* avgDaysOf dividing by inventory.length itself, 0 / 0 on an empty
\* inventory: the variant C18 must reject.
avgDaysOfUnguarded(inv) ==
    LET s == sumAverageDays(inv)
    IN  IF s.nan \/ Len(inv) = 0 THEN NaN ELSE Num(RoundDiv(s.v, Len(inv)))

\* Math.round(sum / (inventory.length || 1))
avgDaysOf(inv) ==
    LET s == sumAverageDays(inv)
        d == IF Len(inv) = 0 THEN 1 ELSE Len(inv)
    IN  IF s.nan THEN NaN ELSE Num(RoundDiv(s.v, d))

RECURSIVE totalValueOf(_)
\* inventory.reduce((sum, i) => sum + i.price, 0)
totalValueOf(inv) ==
    IF inv = <<>> THEN Num(0)
    ELSE LET n == Len(inv)
         IN  Add(totalValueOf(SubSeq(inv, 1, n - 1)), inv[n].price)

-----------------------------------------------------------------------------
(* Text *)

\* The three emoji of the section headings: calendar, receipt, light bulb.
EmojiCalendar == "[calendar]"

EmojiReceipt == "[receipt]"

EmojiBulb == "[bulb]"

SP == " "

NL == "\n"

\* The three titles passed to extract (and written in the prompt).
TitleWeekMenu == "week-menu suggestion"

TitlePurchaseList == "suggested purchase list"

TitleReminders == "storage and cooking reminders"

\* The headings the weekly-plan prompt asks the model to keep as they are.
PromptHeadings ==
    << <<EmojiCalendar, SP, TitleWeekMenu>>,
       <<EmojiReceipt,  SP, TitlePurchaseList>>,
       <<EmojiBulb,     SP, TitleReminders>> >>

\* Characters String.prototype.trim removes.
IsSpace(c) == c \in {SP, NL}

RECURSIVE Trim(_)
\* s.trim()
Trim(s) ==
    IF s = <<>> THEN s
    ELSE IF IsSpace(s[1]) THEN Trim(Tail(s))
    ELSE IF IsSpace(s[Len(s)]) THEN Trim(SubSeq(s, 1, Len(s) - 1))
    ELSE s

\* The positions at which pat occurs in s.
Occurrences(s, pat) ==
    {p \in 1..(Len(s) - Len(pat) + 1) : SubSeq(s, p, p + Len(pat) - 1) = pat}

Least(S) == CHOOSE x \in S : \A y \in S : x <= y

\* s.replace(pat, ''), pat a string: the first occurrence is removed.
RemoveFirst(s, pat) ==
    IF Occurrences(s, pat) = {} THEN s
    ELSE LET p == Least(Occurrences(s, pat))
         IN  SubSeq(s, 1, p - 1) \o SubSeq(s, p + Len(pat), Len(s))

\* The text the extract pattern is anchored on: the calendar emoji, a blank
\* and the title, whichever title is passed.
ExtractPrefix(title) == <<EmojiCalendar, SP, title>>

\* answer.match(new RegExp(prefix + "[\s\S]*?(?=calendar|receipt|bulb|$)")):
\* <<>> for null, else <<match[0]>>.  The leftmost occurrence of the prefix
\* matches, followed by the fewest characters that bring the match to one of
\* the three emoji or to the end of the text.
extractMatch(answer, title) ==
    LET starts == Occurrences(answer, ExtractPrefix(title))
    IN  IF starts = {} THEN <<>>
        ELSE LET p    == Least(starts)
                 from == p + Len(ExtractPrefix(title))
                 ends == {q \in from..(Len(answer) + 1) :
                             \/ q = Len(answer) + 1
                             \/ answer[q] \in {EmojiCalendar, EmojiReceipt, EmojiBulb}}
             IN  <<SubSeq(answer, p, Least(ends) - 1)>>

\* extract falling back to the whole answer when the heading is missing: the
\* variant C4 must reject.
extractOrWhole(answer, title) ==
    LET match == extractMatch(answer, title)
    IN  IF match = <<>> THEN Trim(answer)
        ELSE Trim(RemoveFirst(match[1], ExtractPrefix(title)))

\* const extract = (title) => ... over the handler's `answer`.
extract(answer, title) ==
    LET match == extractMatch(answer, title)
    IN  IF match = <<>> THEN <<>>
        ELSE Trim(RemoveFirst(match[1], ExtractPrefix(title)))

-----------------------------------------------------------------------------
(* Fixed sentences of the source, one token each *)

\* ask-ai, no handle: "GEMINI_API_KEY not set, demo mode."
AskDemoNotice == "GEMINI_API_KEY is not set; this is demo mode."

\* ask-ai, no handle: "Your fridge currently holds:"
AskDemoHolds == "Your fridge currently holds:"

\* ask-ai, no handle: closing advice.
AskDemoAdvice == "Plan the low or soon-expiring items into the next days' dishes."

\* ask-ai, catch.
AskOffline == "AI cannot connect for now; plan the low or soon-expiring items first."

\* smart-suggest, no handle.
SuggestNoGemini == "Not connected to Gemini; order dishes by remaining amount and freshness yourself."

\* smart-suggest, generation failed.
SuggestAdvisorOffline == "AI advisor is offline for now; use the soon-expiring items first."

\* smart-suggest, outer catch.
SuggestApology == "Smart menu planning failed for now, the stock data is still usable; retry later."

\* goal || ..., capacity || ..., expiry || ... in the prompts.
GoalUnspecified == "unspecified, plan a balanced varied menu"

CapacityUnknown == "unknown"

ExpiryUnfilled == "unfilled"

-----------------------------------------------------------------------------
(* Response bodies and prompts *)

\* `- ${i.name}(left ${i.remaining}%)`
askDemoLine(i) == <<"- ", i.name, "(left ", FmtNum(i.remaining), "%)">>

RECURSIVE askDemoLinesReversed(_)
\* askDemoLines listing the items last to first: the variant C8 must reject.
askDemoLinesReversed(inv) ==
    IF inv = <<>> THEN <<>>
    ELSE IF Len(inv) = 1 THEN askDemoLine(inv[1])
    ELSE askDemoLine(inv[Len(inv)]) \o <<NL>>
         \o askDemoLinesReversed(SubSeq(inv, 1, Len(inv) - 1))

RECURSIVE askDemoLines(_)
\* inventory.map(i => line).join('\n')
askDemoLines(inv) ==
    IF inv = <<>> THEN <<>>
    ELSE IF Len(inv) = 1 THEN askDemoLine(inv[1])
    ELSE askDemoLines(SubSeq(inv, 1, Len(inv) - 1)) \o <<NL>> \o askDemoLine(inv[Len(inv)])

\* Body sent by /api/ask-ai when genAI is unset.
askNoModelBody(inv) ==
    [answer |-> <<AskDemoNotice, NL, AskDemoHolds, NL>> \o askDemoLines(inv)
                \o <<NL, AskDemoAdvice>>]

\* askBody trimming the generated text: the variant C19 must reject.
askBodyTrimmed(text) == [answer |-> Trim(text)]

\* Body sent by /api/ask-ai on success.
askBody(text) == [answer |-> text]

\* Body sent by the catch of /api/ask-ai.
askErrorBody == [answer |-> <<AskOffline>>]

\* The prompt of /api/ask-ai: the question and one stock line per item.
askPrompt(question, inv) ==
    [route    |-> "/api/ask-ai",
     question |-> question,
     stock    |-> [k \in 1..Len(inv) |->
                     [name      |-> inv[k].name,
                      remaining |-> inv[k].remaining,
                      shelfLife |-> inv[k].shelfLife,
                      expiry    |-> StrOr(inv[k].expiry, ExpiryUnfilled),
                      price     |-> inv[k].price]]]

\* suggestNoModelBody sending the zeroed metrics of the outer catch: the
\* variant C5 must reject.
suggestNoModelBodyZeroed(u, t, a) ==
    [answer |-> <<SuggestNoGemini>>, urgent |-> <<>>, totalValue |-> Num(0),
     avgDays |-> Num(0)]

\* Body sent by /api/smart-suggest when genAI is unset.
suggestNoModelBody(u, t, a) ==
    [answer |-> <<SuggestNoGemini>>, urgent |-> u, totalValue |-> t, avgDays |-> a]

\* The prompt of /api/smart-suggest: preferences, capacity, one stock line per
\* item and the three headings to keep.
suggestPrompt(goal, capacity, inv) ==
    [route    |-> "/api/smart-suggest",
     goal     |-> StrOr(goal, GoalUnspecified),
     capacity |-> StrOr(capacity, CapacityUnknown),
     stock    |-> [k \in 1..Len(inv) |->
                     [name      |-> inv[k].name,
                      remaining |-> inv[k].remaining,
                      shelfLife |-> inv[k].shelfLife,
                      price     |-> inv[k].price]],
     headings |-> PromptHeadings]

\* The value `answer` gets in the catch around generateContent.
generationFailedAnswer == <<SuggestAdvisorOffline>>

\* Body sent by /api/smart-suggest once `answer` is set: the three sections
\* are extracted from it.
suggestBody(answer, u, t, a) ==
    [answer       |-> answer,
     weekMenu     |-> extract(answer, TitleWeekMenu),
     purchaseList |-> extract(answer, TitlePurchaseList),
     reminders    |-> extract(answer, TitleReminders),
     urgent       |-> u,
     totalValue   |-> t,
     avgDays      |-> a]

\* Body sent by the outer catch of /api/smart-suggest.
suggestErrorBody ==
    [answer |-> <<SuggestApology>>, urgent |-> <<>>, totalValue |-> Num(0),
     avgDays |-> Num(0)]

-----------------------------------------------------------------------------
(* Inputs *)

\* What generateContent / console.error may see as err.message.
Errs == {"fetch failed", "quota exceeded"}

Questions == {"What can I cook tonight?"}

Goals == {Undefined, "low carb"}

Capacities == {Undefined, "12"}

Bodies(k) ==
    IF k = "/api/ask-ai" THEN {[question |-> q] : q \in Questions}
    ELSE {[goal |-> g, capacity |-> c] : g \in Goals, c \in Capacities}

\* Texts the model may generate: an optional preamble, then any of the three
\* prompt headings, each at most once and in any order, each followed by a
\* content.  One content holds an emoji that is no heading.
Preambles == {<<>>, <<"Here is your plan.", NL>>}

Contents ==
    { <<NL, "tofu stir-fry", NL>>,
      <<SP, "rice", SP, "2kg">>,
      <<NL, "keep", EmojiBulb, "cold", NL>> }

HeadingOrders ==
    {o \in SeqsUpTo(1..3, 3) : \A i, j \in 1..Len(o) : i # j => o[i] # o[j]}

RECURSIVE Sections(_, _)
\* The headings of order o, heading o[i] followed by content c[i].
Sections(o, c) ==
    IF o = <<>> THEN <<>>
    ELSE LET n == Len(o)
         IN  Sections(SubSeq(o, 1, n - 1), c) \o PromptHeadings[o[n]] \o c[n]

Texts ==
    UNION { {pre \o Sections(o, c) : pre \in Preambles, c \in [1..Len(o) -> Contents]}
            : o \in HeadingOrders }

\* A plan as the prompt asks for it, a refusal, and a plan with the purchase
\* list alone.
FewTexts ==
    { PromptHeadings[1] \o <<NL, "tofu stir-fry", NL>> \o
      PromptHeadings[2] \o <<SP, "rice", SP, "2kg">> \o
      PromptHeadings[3] \o <<NL, "keep", SP, "cold", NL>>,
      <<"I cannot plan this.">>,
      PromptHeadings[2] \o <<SP, "rice", SP, "2kg">> }

-----------------------------------------------------------------------------
(* The handlers *)

\* The invocations of the handlers that may be in flight together: a pair,
\* one request and another that may interfere with it.
ReqIds == {1, 2}

\* The locals of a handler invocation before the request arrives.  rows,
\* nows and result record what the collaborators handed to it: the rows read,
\* the clock readings, and the generated text or the error thrown.
NewReq ==
    [pc |-> "idle", kind |-> "none", body |-> <<>>, rows |-> <<>>, nows |-> <<>>,
     inventory |-> <<>>, urgent |-> <<>>, avgDays |-> Num(0), totalValue |-> Num(0),
     prompt |-> <<>>, sent |-> <<>>, state |-> "START", result |-> <<>>]

InitWith(sheets, texts) ==
    /\ reqs = [r \in ReqIds |-> NewReq]
    /\ genAI \in BOOLEAN
    /\ sheet \in sheets
    /\ modelText \in texts
    /\ pc = "idle"
    /\ kind = "none"
    /\ body = <<>>
    /\ inventory = <<>>
    /\ urgent = <<>>
    /\ avgDays = Num(0)
    /\ totalValue = Num(0)
    /\ prompt = <<>>
    /\ sent = <<>>
    /\ log = <<>>
    /\ modelCalls = 0
    /\ extractCalls = 0
    /\ loaded = FALSE
    /\ state = "START"

Init == InitWith(Sheets, FewTexts)

\* A request arrives on one of the two routes; req.body is destructured.
Begin ==
    /\ pc = "idle"
    /\ \E k \in {"/api/ask-ai", "/api/smart-suggest"} :
         /\ kind' = k
         /\ body' \in Bodies(k)
    /\ pc' = "loadSheet"
    /\ UNCHANGED <<reqs, genAI, sheet, modelText, inventory, urgent, avgDays, totalValue,
                   prompt, sent, log, modelCalls, extractCalls, loaded, state>>

\* LoadCatch asking the model for advice without an inventory instead of
\* answering: the variant C6 must reject.
LoadCatchAsksModel(e) ==
    /\ log' = Append(log, [route |-> kind, message |-> e])
    /\ genAI
    /\ modelCalls' = modelCalls + 1
    /\ pc' = "generate"
    /\ state' = "MODEL_INVOKED"
    /\ UNCHANGED <<reqs, genAI, sheet, modelText, kind, body, inventory, urgent, avgDays,
                   totalValue, prompt, sent, extractCalls, loaded>>

\* The catch of the handler that wraps the inventory load: the catch of
\* /api/ask-ai, the outer catch of /api/smart-suggest.
LoadCatch(e) ==
    /\ log' = Append(log, [route |-> kind, message |-> e])
    /\ sent' = Append(sent, IF kind = "/api/ask-ai" THEN askErrorBody
                            ELSE suggestErrorBody)
    /\ pc' = "done"
    /\ state' = "INVENTORY_LOAD_FAILED"
    /\ UNCHANGED <<reqs, genAI, sheet, modelText, kind, body, inventory, urgent, avgDays,
                   totalValue, prompt, modelCalls, extractCalls, loaded>>

\* await loadSheet() returns the sheet.
LoadSheetOk ==
    /\ pc = "loadSheet"
    /\ pc' = "getRows"
    /\ UNCHANGED <<reqs, genAI, sheet, modelText, kind, body, inventory, urgent, avgDays,
                   totalValue, prompt, sent, log, modelCalls, extractCalls, loaded,
                   state>>

\* await loadSheet() throws.
LoadSheetFail ==
    /\ pc = "loadSheet"
    /\ \E e \in Errs : LoadCatch(e)

\* /api/ask-ai from the return of getRows() to its next await or response.
AskAfterRows ==
    /\ inventory' = askInventory(sheet)
    /\ IF ~genAI
       THEN /\ sent' = Append(sent, askNoModelBody(inventory'))
            /\ pc' = "done"
            /\ state' = "NO_MODEL_CONFIGURED"
            /\ UNCHANGED <<prompt, modelCalls>>
       ELSE /\ prompt' = askPrompt(body.question, inventory')
            /\ modelCalls' = modelCalls + 1
            /\ pc' = "generate"
            /\ state' = "MODEL_INVOKED"
            /\ UNCHANGED sent
    /\ UNCHANGED <<urgent, avgDays, totalValue>>

\* /api/smart-suggest from the return of getRows() to its next await or
\* response.  getGenerativeModel only builds a client object for the fixed
\* model name: it does no I/O and is taken not to throw.
SuggestAfterRows ==
    /\ \E nows \in ClockReadings(Len(sheet)) :
         inventory' = suggestInventory(sheet, nows)
    /\ urgent' = urgentOf(inventory')
    /\ avgDays' = avgDaysOf(inventory')
    /\ totalValue' = totalValueOf(inventory')
    /\ IF ~genAI
       THEN /\ sent' = Append(sent, suggestNoModelBody(urgent', totalValue', avgDays'))
            /\ pc' = "done"
            /\ state' = "NO_MODEL_CONFIGURED"
            /\ UNCHANGED <<prompt, modelCalls>>
       ELSE /\ prompt' = suggestPrompt(body.goal, body.capacity, inventory')
            /\ modelCalls' = modelCalls + 1
            /\ pc' = "generate"
            /\ state' = "MODEL_INVOKED"
            /\ UNCHANGED sent

\* await sheet.getRows() returns the rows.
GetRowsOk ==
    /\ pc = "getRows"
    /\ loaded' = TRUE
    /\ IF kind = "/api/ask-ai" THEN AskAfterRows ELSE SuggestAfterRows
    /\ UNCHANGED <<reqs, genAI, sheet, modelText, kind, body, log, extractCalls>>

\* await sheet.getRows() throws.
GetRowsFail ==
    /\ pc = "getRows"
    /\ \E e \in Errs : LoadCatch(e)

\* await model.generateContent(prompt) returns and response.text() yields
\* the text.
GenerateOk ==
    /\ pc = "generate"
    /\ IF kind = "/api/ask-ai"
       THEN /\ sent' = Append(sent, askBody(modelText))
            /\ UNCHANGED extractCalls
       ELSE /\ sent' = Append(sent, suggestBody(modelText, urgent, totalValue, avgDays))
            /\ extractCalls' = extractCalls + 3
    /\ pc' = "done"
    /\ state' = "MODEL_SUCCEEDED"
    /\ UNCHANGED <<reqs, genAI, sheet, modelText, kind, body, inventory, urgent, avgDays,
                   totalValue, prompt, log, modelCalls, loaded>>

\* GenerateFail without a catch around the call: the rejection leaves the
\* handler and nothing is sent.  The variant C7 must reject.
GenerateFailEscapes ==
    /\ pc = "generate"
    /\ pc' = "rejected"
    /\ state' = "MODEL_FAILED"
    /\ UNCHANGED <<reqs, genAI, sheet, modelText, kind, body, inventory, urgent, avgDays,
                   totalValue, prompt, sent, log, modelCalls, extractCalls, loaded>>

\* GenerateFail calling generateContent a second time before giving up: the
\* variant C9 must reject.
GenerateFailRetries ==
    /\ pc = "generate"
    /\ modelCalls < 2
    /\ modelCalls' = modelCalls + 1
    /\ \E e \in Errs : log' = Append(log, [route |-> "gemini", message |-> e])
    /\ UNCHANGED <<reqs, genAI, sheet, modelText, pc, kind, body, inventory, urgent,
                   avgDays, totalValue, prompt, sent, extractCalls, loaded, state>>

\* GenerateFail with /api/ask-ai answering a failed generation in its own
\* words, as /api/smart-suggest does: the variant C20 must reject.
GenerateFailOwnAnswer ==
    /\ pc = "generate"
    /\ \E e \in Errs :
         /\ log' = Append(log, [route |-> "gemini", message |-> e])
         /\ IF kind = "/api/ask-ai"
            THEN /\ sent' = Append(sent, [answer |-> generationFailedAnswer])
                 /\ UNCHANGED extractCalls
            ELSE /\ sent' = Append(sent, suggestBody(generationFailedAnswer, urgent,
                                                     totalValue, avgDays))
                 /\ extractCalls' = extractCalls + 3
    /\ pc' = "done"
    /\ state' = "MODEL_FAILED"
    /\ UNCHANGED <<reqs, genAI, sheet, modelText, kind, body, inventory, urgent, avgDays,
                   totalValue, prompt, modelCalls, loaded>>

\* await model.generateContent(prompt) throws, or response.text() does.
GenerateFail ==
    /\ pc = "generate"
    /\ \E e \in Errs :
         IF kind = "/api/ask-ai"
         THEN /\ log' = Append(log, [route |-> kind, message |-> e])
              /\ sent' = Append(sent, askErrorBody)
              /\ UNCHANGED extractCalls
         ELSE /\ log' = Append(log, [route |-> "gemini", message |-> e])
              /\ sent' = Append(sent, suggestBody(generationFailedAnswer, urgent,
                                                  totalValue, avgDays))
              /\ extractCalls' = extractCalls + 3
    /\ pc' = "done"
    /\ state' = "MODEL_FAILED"
    /\ UNCHANGED <<reqs, genAI, sheet, modelText, kind, body, inventory, urgent, avgDays,
                   totalValue, prompt, modelCalls, loaded>>

Next ==
    \/ Begin
    \/ LoadSheetOk
    \/ LoadSheetFail
    \/ GetRowsOk
    \/ GetRowsFail
    \/ GenerateOk
    \/ GenerateFail

Spec == Init /\ [][Next]_vars

\* The same handlers with every generated text of Texts, over an empty sheet.
ParserInit == InitWith({<<>>}, Texts)

ParserSpec == ParserInit /\ [][Next]_vars

\* The same handlers over the sheets of at most one row, every pending
\* collaborator call eventually returning or throwing.
FairInit == InitWith({<<>>} \cup {<<r>> : r \in RowPool}, FewTexts)

FairSpec ==
    /\ FairInit
    /\ [][Next]_vars
    /\ WF_vars(LoadSheetOk \/ LoadSheetFail)
    /\ WF_vars(GetRowsOk \/ GetRowsFail)
    /\ WF_vars(GenerateOk \/ GenerateFail)

(***************************************************************************)
(* Several requests served at once.  Node runs one handler at a time up to *)
(* its next await, so a step is the code of one invocation between two     *)
(* awaits; the invocations interleave at the awaits, and the item routes   *)
(* write the sheet between them.  Each invocation owns its locals          *)
(* (reqs[r]); genAI, the sheet and the console are shared.                 *)
(***************************************************************************)

\* The locals of an invocation once req.body is destructured.
began(q, k, b) ==
    [q EXCEPT !.pc = "loadSheet", !.kind = k, !.body = b]

\* The locals once loadSheet() returned.
sheetLoaded(q) == [q EXCEPT !.pc = "getRows"]

\* caught with the handler answering in the error's own words, as the item
\* routes do: the variant C16 must reject.
caughtLeaks(q, e) ==
    [q EXCEPT !.pc = "done", !.state = "INVENTORY_LOAD_FAILED",
              !.result = <<"error", e>>,
              !.sent = Append(@, [error |-> <<e>>])]

\* The locals once the catch around the inventory load ran for error e.
caught(q, e) ==
    [q EXCEPT !.pc = "done", !.state = "INVENTORY_LOAD_FAILED",
              !.result = <<"error", e>>,
              !.sent = Append(@, IF q.kind = "/api/ask-ai" THEN askErrorBody
                                 ELSE suggestErrorBody)]

\* The locals of /api/ask-ai once getRows() returned rows, up to the next
\* await or the response.
askAfterRows(q, g, rows) ==
    LET inv == askInventory(rows)
        r1  == [q EXCEPT !.rows = rows, !.inventory = inv]
    IN  IF ~g
        THEN [r1 EXCEPT !.pc = "done", !.state = "NO_MODEL_CONFIGURED",
                        !.sent = Append(@, askNoModelBody(inv))]
        ELSE [r1 EXCEPT !.pc = "generate", !.state = "MODEL_INVOKED",
                        !.prompt = askPrompt(q.body.question, inv)]

\* The locals of /api/smart-suggest once getRows() returned rows and the
\* clock was read nows, up to the next await or the response.
suggestAfterRows(q, g, rows, nows) ==
    LET inv == suggestInventory(rows, nows)
        u   == urgentOf(inv)
        a   == avgDaysOf(inv)
        t   == totalValueOf(inv)
        r1  == [q EXCEPT !.rows = rows, !.nows = nows, !.inventory = inv,
                         !.urgent = u, !.avgDays = a, !.totalValue = t]
    IN  IF ~g
        THEN [r1 EXCEPT !.pc = "done", !.state = "NO_MODEL_CONFIGURED",
                        !.sent = Append(@, suggestNoModelBody(u, t, a))]
        ELSE [r1 EXCEPT !.pc = "generate", !.state = "MODEL_INVOKED",
                        !.prompt = suggestPrompt(q.body.goal, q.body.capacity, inv)]

afterRows(q, g, rows, nows) ==
    IF q.kind = "/api/ask-ai" THEN askAfterRows(q, g, rows)
    ELSE suggestAfterRows(q, g, rows, nows)

\* The locals once generateContent returned and response.text() gave text.
generated(q, text) ==
    [q EXCEPT !.pc = "done", !.state = "MODEL_SUCCEEDED",
              !.result = <<"text", text>>,
              !.sent = Append(@, IF q.kind = "/api/ask-ai" THEN askBody(text)
                                 ELSE suggestBody(text, q.urgent, q.totalValue,
                                                  q.avgDays))]

\* The locals once generateContent, or response.text(), threw e.
generationFailed(q, e) ==
    [q EXCEPT !.pc = "done", !.state = "MODEL_FAILED",
              !.result = <<"error", e>>,
              !.sent = Append(@, IF q.kind = "/api/ask-ai" THEN askErrorBody
                                 ELSE suggestBody(generationFailedAnswer, q.urgent,
                                                  q.totalValue, q.avgDays))]

\* The console.error line of a failed generation.
generationLog(q, e) ==
    [route |-> IF q.kind = "/api/ask-ai" THEN q.kind ELSE "gemini", message |-> e]

\* What the single-request handlers own and the concurrent ones leave alone.
oneRequest ==
    <<modelText, pc, kind, body, inventory, urgent, avgDays, totalValue, prompt,
      sent, modelCalls, extractCalls, loaded, state>>

\* Request bodies while several requests are served at once.
ConcBodies(k) ==
    IF k = "/api/ask-ai" THEN {[question |-> q] : q \in Questions}
    ELSE {[goal |-> "low carb", capacity |-> Undefined]}

\* Texts the model may generate while several requests are served at once.
ConcTexts ==
    { PromptHeadings[1] \o <<NL, "tofu stir-fry", NL>>, <<"I cannot plan this.">> }

\* Bodies of POST /api/item.
ItemBodies ==
    { [name |-> "Kale", price |-> "40", weight |-> Undefined, expiry |-> "day+5",
       remaining |-> Undefined, averageDays |-> Undefined, shelfLife |-> Undefined] }

\* Values of req.body.remaining in PUT /api/update-item/:id.
Remainings == {"0"}

\* The row POST /api/item hands to sheet.addRow.
addedRow(b) ==
    Row(b.name, b.price, b.weight, b.expiry, StrOr(b.remaining, "100"),
        StrOr(b.averageDays, "3"), StrOr(b.shelfLife, "7"))

CBegin(r) ==
    /\ reqs[r].pc = "idle"
    /\ \E k \in {"/api/ask-ai", "/api/smart-suggest"} :
         \E b \in ConcBodies(k) : reqs' = [reqs EXCEPT ![r] = began(@, k, b)]
    /\ UNCHANGED <<genAI, sheet, log, oneRequest>>

CLoadSheetOk(r) ==
    /\ reqs[r].pc = "loadSheet"
    /\ reqs' = [reqs EXCEPT ![r] = sheetLoaded(@)]
    /\ UNCHANGED <<genAI, sheet, log, oneRequest>>

CLoadSheetFail(r) ==
    /\ reqs[r].pc = "loadSheet"
    /\ \E e \in Errs :
         /\ reqs' = [reqs EXCEPT ![r] = caught(@, e)]
         /\ log' = Append(log, [route |-> reqs[r].kind, message |-> e])
    /\ UNCHANGED <<genAI, sheet, oneRequest>>

\* CGetRowsOk with the handler saving its normalised shelf life back to
\* the rows it read: the variant C15 must reject.
CGetRowsOkSaves(r) ==
    /\ reqs[r].pc = "getRows"
    /\ \E nows \in ClockReadings(Len(sheet)) :
         /\ reqs' = [reqs EXCEPT ![r] = afterRows(@, genAI, sheet, nows)]
         /\ sheet' = [k \in 1..Len(sheet) |->
                        [sheet[k] EXCEPT !.shelfLife =
                            FmtNum(reqs'[r].inventory[k].shelfLife)]]
    /\ UNCHANGED <<genAI, log, oneRequest>>

\* CGetRowsOk with the metrics kept in variables of the module instead of
\* the handler: the variant C14 must reject.
CGetRowsOkShared(r) ==
    /\ reqs[r].pc = "getRows"
    /\ \E nows \in ClockReadings(Len(sheet)) :
         LET q == afterRows(reqs[r], genAI, sheet, nows)
         IN  reqs' = [x \in ReqIds |->
                        IF x = r THEN q
                        ELSE [reqs[x] EXCEPT !.urgent = q.urgent,
                                             !.avgDays = q.avgDays,
                                             !.totalValue = q.totalValue]]
    /\ UNCHANGED <<genAI, sheet, log, oneRequest>>

CGetRowsOk(r) ==
    /\ reqs[r].pc = "getRows"
    /\ \E nows \in ClockReadings(Len(sheet)) :
         reqs' = [reqs EXCEPT ![r] = afterRows(@, genAI, sheet, nows)]
    /\ UNCHANGED <<genAI, sheet, log, oneRequest>>

CGetRowsFail(r) ==
    /\ reqs[r].pc = "getRows"
    /\ \E e \in Errs :
         /\ reqs' = [reqs EXCEPT ![r] = caught(@, e)]
         /\ log' = Append(log, [route |-> reqs[r].kind, message |-> e])
    /\ UNCHANGED <<genAI, sheet, oneRequest>>

CGenerateOk(r) ==
    /\ reqs[r].pc = "generate"
    /\ \E t \in ConcTexts : reqs' = [reqs EXCEPT ![r] = generated(@, t)]
    /\ UNCHANGED <<genAI, sheet, log, oneRequest>>

CGenerateFail(r) ==
    /\ reqs[r].pc = "generate"
    /\ \E e \in Errs :
         /\ reqs' = [reqs EXCEPT ![r] = generationFailed(@, e)]
         /\ log' = Append(log, generationLog(reqs[r], e))
    /\ UNCHANGED <<genAI, sheet, oneRequest>>

\* POST /api/item: sheet.addRow appends the row.
AddRow ==
    /\ Len(sheet) < MaxStore
    /\ \E b \in ItemBodies : sheet' = Append(sheet, addedRow(b))
    /\ UNCHANGED <<reqs, genAI, log, oneRequest>>

\* PUT /api/update-item/:id: row.save() after row.set('remaining', ...).
SaveRemaining ==
    /\ \E i \in 1..Len(sheet) : \E v \in Remainings :
         sheet' = [sheet EXCEPT ![i].remaining = v]
    /\ UNCHANGED <<reqs, genAI, log, oneRequest>>

ConcNext ==
    \/ \E r \in ReqIds : CBegin(r)
    \/ \E r \in ReqIds : CLoadSheetOk(r)
    \/ \E r \in ReqIds : CLoadSheetFail(r)
    \/ \E r \in ReqIds : CGetRowsOk(r)
    \/ \E r \in ReqIds : CGetRowsFail(r)
    \/ \E r \in ReqIds : CGenerateOk(r)
    \/ \E r \in ReqIds : CGenerateFail(r)
    \/ AddRow
    \/ SaveRemaining

ConcInit == InitWith({<<>>}, {<<>>})

ConcSpec == ConcInit /\ [][ConcNext]_vars

-----------------------------------------------------------------------------
(* Properties *)

IsSuggest == kind = "/api/smart-suggest"

IsAsk == kind = "/api/ask-ai"

Range(f) == {f[x] : x \in DOMAIN f}

SevenFields ==
    {"answer", "weekMenu", "purchaseList", "reminders", "urgent", "totalValue",
     "avgDays"}

\* C1: every response to a weekly-plan request carries all seven fields
\* answer, weekMenu, purchaseList, reminders, urgent, totalValue, avgDays,
\* whatever state the request ended in.
C1_SevenFields ==
    IsSuggest => \A i \in 1..Len(sent) : SevenFields \subseteq DOMAIN sent[i]

\* The positions at which heading h of the prompt occurs in text.
HeadingAt(text, h) == Occurrences(text, PromptHeadings[h])

\* The positions at which any of the three full headings occurs.
AnyHeadingAt(text) == UNION {HeadingAt(text, h) : h \in 1..3}

\* The section of heading h as the parser contract states it: the text right
\* after the heading, up to the next occurrence of any full heading or to
\* the end of the text, trimmed.
SectionOf(text, h) ==
    LET from  == Least(HeadingAt(text, h)) + Len(PromptHeadings[h])
        nexts == {q \in AnyHeadingAt(text) : q >= from}
        upto  == IF nexts = {} THEN Len(text) ELSE Least(nexts) - 1
    IN  Trim(SubSeq(text, from, upto))

\* The sections of the response, by heading number.
SectionSent(r, h) ==
    IF h = 1 THEN r.weekMenu ELSE IF h = 2 THEN r.purchaseList ELSE r.reminders

\* The headings that occur in text.
Present(text) == {h \in 1..3 : HeadingAt(text, h) # {}}

\* No heading occurs twice: the contents hold no heading.
ContentsApart(text) == \A h \in 1..3 : Cardinality(HeadingAt(text, h)) <= 1

\* C2: parser round trip.  When the generated text holds all three headings,
\* in any order, each once, each of weekMenu, purchaseList and reminders is
\* the trimmed text between its own heading and the next full heading (or
\* the end of the text).
C2_RoundTrip ==
    (IsSuggest /\ state = "MODEL_SUCCEEDED" /\ Present(modelText) = 1..3
       /\ ContentsApart(modelText))
    => \A h \in 1..3 : SectionSent(sent[1], h) = SectionOf(modelText, h)

\* C3: parser with headings missing.  When the generated text lacks one or
\* two of the three headings, each absent heading's section is the empty
\* string and each present heading's section is still its content.
C3_MissingHeading ==
    (IsSuggest /\ state = "MODEL_SUCCEEDED" /\ Cardinality(Present(modelText)) \in {1, 2}
       /\ ContentsApart(modelText))
    => \A h \in 1..3 :
         SectionSent(sent[1], h) =
            IF h \in Present(modelText) THEN SectionOf(modelText, h) ELSE <<>>

\* C4: weekly plan, generation failed: the answer is the fixed fallback
\* sentence and the three sections are empty strings, for every inventory,
\* goal and capacity.
C4_ModelFailed ==
    (IsSuggest /\ state = "MODEL_FAILED")
    => /\ Len(sent) = 1
       /\ sent[1].answer = <<SuggestAdvisorOffline>>
       /\ sent[1].weekMenu = <<>>
       /\ sent[1].purchaseList = <<>>
       /\ sent[1].reminders = <<>>

C4_Witness ==
    /\ IsSuggest /\ state = "MODEL_FAILED" /\ pc = "done"
    /\ Len(sheet) = 2 /\ body.goal # Undefined /\ body.capacity = Undefined

C6_LoadBeforeModel ==
    /\ modelCalls > 0 => loaded
    /\ state = "INVENTORY_LOAD_FAILED"
       => /\ modelCalls = 0
          /\ pc = "done"
          /\ Len(sent) = 1
          /\ IsSuggest => /\ sent[1].urgent = <<>>
                          /\ sent[1].totalValue = Num(0)
                          /\ sent[1].avgDays = Num(0)
                          /\ sent[1].answer = <<SuggestApology>>

C6_Witness ==
    /\ state = "INVENTORY_LOAD_FAILED" /\ IsSuggest /\ genAI /\ Len(sheet) = 2
    /\ modelCalls = 0 /\ Len(sent) = 1

\* C7: every advisory request, once begun, reaches its end having sent
\* exactly one response, whichever collaborator call fails; never more than
\* one response is sent.
C7_AlwaysResponds ==
    /\ [](Len(sent) <= 1)
    /\ [](pc = "done" => Len(sent) = 1)
    /\ (pc # "idle") ~> (pc = "done" /\ Len(sent) = 1)

C7_Witness ==
    /\ pc = "done" /\ IsAsk /\ state = "MODEL_FAILED" /\ Len(sent) = 1 /\ Len(log) = 1

\* The answer a lists the n items of inv, in order, each by name with its
\* remaining percent.
ListsItems(a, inv) ==
    LET n == Len(inv)
    IN  /\ Len(a) = 6 + (IF n = 0 THEN 0 ELSE 6 * n - 1)
        /\ \A k \in 1..n : /\ a[6 * k] = inv[k].name
                           /\ a[6 * k + 2] = FmtNum(inv[k].remaining)

\* What C8 says of a finished request once no handle exists.
NoModelOutcome ==
    /\ state = "NO_MODEL_CONFIGURED"
    /\ Len(sent) = 1
    /\ IsAsk => /\ Len(inventory) = Len(sheet)
                /\ \A k \in 1..Len(sheet) : inventory[k].name = sheet[k].name
                /\ ListsItems(sent[1].answer, inventory)
    /\ IsSuggest => sent[1].answer = <<SuggestNoGemini>>

\* C8 as stated: with the generative service never configured, a request
\* ends in NO_MODEL_CONFIGURED with no model call and no parser invocation;
\* the general-advice answer lists every item in inventory order by name
\* with its remaining percent, the weekly-plan answer is the fixed advice.
C8_Original ==
    ~genAI => /\ modelCalls = 0
              /\ extractCalls = 0
              /\ pc = "done" => NoModelOutcome

\* C8 as amended: the same, for a request whose inventory load succeeded.
C8_NoModel ==
    ~genAI => /\ modelCalls = 0
              /\ extractCalls = 0
              /\ (pc = "done" /\ loaded) => NoModelOutcome

C8_Witness ==
    /\ ~genAI /\ IsAsk /\ pc = "done" /\ state = "NO_MODEL_CONFIGURED"
    /\ Len(inventory) = 2
    /\ inventory[1].name = "Milk" /\ inventory[2].name = "Eggs"

\* C9: no retries.  generateContent is called at most once per request, and
\* a failed generation ends the request in MODEL_FAILED with that one call.
C9_NoRetry ==
    /\ modelCalls <= 1
    /\ state = "MODEL_FAILED" => pc = "done" /\ modelCalls = 1
    /\ state = "MODEL_INVOKED" => pc = "generate" /\ modelCalls = 1

C9_Witness == state = "MODEL_FAILED" /\ pc = "done" /\ modelCalls = 1 /\ Len(log) = 1

\* C10: urgent is the subsequence of the normalised inventory, in input
\* order, of the items with remaining < 40 or shelfLife < 5 (the shelfLife
\* after the freshness override); remaining = 40 with shelfLife = 5 is not
\* urgent, remaining = 39 is; the response carries that sequence.
C10_Urgent ==
    (IsSuggest /\ loaded)
    => /\ urgent = SelectSeq(inventory,
                     LAMBDA i : \/ (~i.remaining.nan /\ i.remaining.v < 40)
                                \/ (~i.shelfLife.nan /\ i.shelfLife.v < 5))
       /\ \A k \in 1..Len(inventory) :
            /\ (inventory[k].remaining = Num(40) /\ inventory[k].shelfLife = Num(5))
                 => inventory[k] \notin Range(urgent)
            /\ inventory[k].remaining = Num(39) => inventory[k] \in Range(urgent)
       /\ \A i \in 1..Len(sent) : sent[i].urgent = urgent

C10_Witness ==
    /\ IsSuggest /\ loaded /\ pc = "done" /\ Len(inventory) = 2
    /\ sheet[1].shelfLife = "4" /\ inventory[1].shelfLife = Num(5)
    /\ inventory[1].remaining = Num(40)
    /\ inventory[2].remaining = Num(39) /\ inventory[2].shelfLife = Num(5)
    /\ urgent = <<inventory[2]>>
    /\ sent[1].urgent = urgent

-----------------------------------------------------------------------------
(* Properties of the normaliser and the metrics *)

\* The row has an expiry: r.get('expiry') is truthy.
HasExpiry(r) == r.expiry # Undefined /\ r.expiry # ""

Abs(x) == IF x < 0 THEN -x ELSE x

\* v is max(1, d) for a whole number d nearest to the days from `now` to the
\* calendar day `day`.
IsDaysLeft(v, day, now) ==
    \E d \in (day - 1)..(day + 1) :
       /\ Abs(d * MsPerDay - (day * MsPerDay - now)) <= MsPerDay \div 2
       /\ v = IF d < 1 THEN 1 ELSE d

\* C11: freshness override.  In a weekly-plan request every row with an
\* expiry, whatever the expiry holds and whatever shelfLife is stored, gets
\* shelfLife = max(1, round(days from now to expiry)): a whole number, never
\* zero, negative or undefined, and the urgency filter sees that value.
C11_FreshnessOverride ==
    (IsSuggest /\ loaded)
    => \A k \in 1..Len(sheet) :
          HasExpiry(sheet[k])
          => /\ ~inventory[k].shelfLife.nan
             /\ inventory[k].shelfLife.v >= 1
             /\ sheet[k].expiry \in DOMAIN DateDay
                  => \E now \in Nows :
                        IsDaysLeft(inventory[k].shelfLife.v, DateDay[sheet[k].expiry], now)
             /\ inventory[k].shelfLife.v < 5 => inventory[k] \in Range(urgent)

\* C12: the normaliser drops no row and every normalised item is within the
\* ranges of the data model, whatever the raw cells hold: price >= 0,
\* 0 <= remaining <= 100, averageDays > 0, shelfLife > 0.
C12_Ranges ==
    (IsSuggest /\ loaded)
    => /\ Len(inventory) = Len(sheet)
       /\ \A k \in 1..Len(inventory) :
            LET i == inventory[k]
            IN  /\ ~i.price.nan /\ i.price.v >= 0
                /\ ~i.remaining.nan /\ i.remaining.v >= 0 /\ i.remaining.v <= 100
                /\ ~i.averageDays.nan /\ i.averageDays.v > 0
                /\ ~i.shelfLife.nan /\ i.shelfLife.v > 0

\* C13: the metrics of a weekly-plan request depend on the rows and on one
\* "now" for the request: within one request two rows with the same expiry
\* get the same shelfLife.
C13_OneNow ==
    (IsSuggest /\ loaded)
    => \A j, k \in 1..Len(sheet) :
          (HasExpiry(sheet[j]) /\ sheet[j].expiry = sheet[k].expiry)
          => inventory[j].shelfLife = inventory[k].shelfLife

\* C17: every item built by an advisory request carries the overridden
\* shelfLife when its row has an expiry: the shelfLife in the general-advice
\* prompt is the one the weekly plan computes for the same row and "now",
\* max(1, round(days from now to expiry)), not the stored one.
C17_AskOverride ==
    (IsAsk /\ pc = "generate")
    => \A k \in 1..Len(sheet) :
          (HasExpiry(sheet[k]) /\ sheet[k].expiry \in DOMAIN DateDay)
          => \E now \in Nows :
                /\ prompt.stock[k].shelfLife = shelfLifeOf(sheet[k], now)
                /\ IsDaysLeft(prompt.stock[k].shelfLife.v, DateDay[sheet[k].expiry], now)

RECURSIVE SumTo(_, _)
\* f[1] + ... + f[n]
SumTo(f, n) == IF n = 0 THEN 0 ELSE SumTo(f, n - 1) + f[n]

\* C18: avgDays is the mean of averageDays over the normalised items rounded
\* to a nearest integer, and 0 on an empty inventory; totalValue is the sum
\* of price over the items; the response carries both.
C18_Aggregates ==
    (IsSuggest /\ loaded)
    => LET n    == Len(inventory)
           days == SumTo([k \in 1..n |-> inventory[k].averageDays.v], n)
           cost == SumTo([k \in 1..n |-> inventory[k].price.v], n)
       IN  /\ ~avgDays.nan
           /\ n = 0 => avgDays.v = 0
           /\ n > 0 => 2 * Abs(n * avgDays.v - days) <= n
           /\ totalValue = Num(cost)
           /\ \A i \in 1..Len(sent) :
                sent[i].avgDays = avgDays /\ sent[i].totalValue = totalValue

C18_Witness ==
    /\ IsSuggest /\ loaded /\ pc = "done" /\ Len(inventory) = 2
    /\ inventory[1].averageDays = Num(2) /\ inventory[2].averageDays = Num(3)
    /\ avgDays = Num(3)
    /\ totalValue = Num(170)
    /\ sent[1].avgDays = avgDays /\ sent[1].totalValue = totalValue

\* C19: general advice, generation succeeded: the answer is the generated
\* text as it is, unparsed and untrimmed, and the response has no other
\* field.
C19_Verbatim ==
    (IsAsk /\ state = "MODEL_SUCCEEDED")
    => /\ Len(sent) = 1
       /\ sent[1].answer = modelText
       /\ DOMAIN sent[1] = {"answer"}
       /\ extractCalls = 0

C19_Witness ==
    /\ IsAsk /\ state = "MODEL_SUCCEEDED" /\ pc = "done"
    /\ modelText # <<>> /\ modelText[Len(modelText)] = NL
    /\ Occurrences(modelText, PromptHeadings[1]) # {}
    /\ sent[1].answer = modelText

\* C20: in a general-advice request a failed inventory load and a failed
\* generation are answered by the same response, the one fixed fallback
\* answer.
C20_SameFallback ==
    (IsAsk /\ state \in {"INVENTORY_LOAD_FAILED", "MODEL_FAILED"})
    => sent = <<[answer |-> <<AskOffline>>]>>

C20_Witness ==
    /\ IsAsk /\ state = "MODEL_FAILED" /\ pc = "done" /\ loaded /\ Len(sheet) = 2
    /\ sent = <<[answer |-> <<AskOffline>>]>>


(***************************************************************************)
(* Requests served together (ConcSpec)                                     *)
(***************************************************************************)

Failed(q) == q.state \in {"INVENTORY_LOAD_FAILED", "MODEL_FAILED"}

\* The locals the handler of q ends with when it is the only invocation and
\* its collaborators hand it what they handed q: the rows, the clock
\* readings, and the generated text or the error.
RunAlone(q) ==
    LET q0 == began(NewReq, q.kind, q.body)
        q2 == afterRows(sheetLoaded(q0), genAI, q.rows, q.nows)
    IN  IF q.state = "INVENTORY_LOAD_FAILED" THEN caught(q0, q.result[2])
        ELSE IF q2.pc = "done" THEN q2
        ELSE IF q.result[1] = "text" THEN generated(q2, q.result[2])
        ELSE generationFailed(q2, q.result[2])

\* Each finished request was sent what its handler sends when run alone.
AnsweredAsAlone ==
    \A r \in ReqIds :
       reqs[r].pc = "done" => reqs[r].sent = RunAlone(reqs[r]).sent

\* C14: however the steps of two advisory requests and the writes of the
\* item routes interleave, the response of each finished request is the one
\* its handler sends when run alone on the rows it read, the clock it read
\* and the model result it got; and no step writes genAI.
C14_Independent == []AnsweredAsAlone /\ [][genAI' = genAI]_vars

\* C14 witness: request 2 read the empty sheet and still awaits the model,
\* while request 1 read a later sheet and has already answered from the
\* model's text.
C14_Witness ==
    /\ reqs[2].pc = "generate" /\ reqs[2].rows = <<>>
    /\ reqs[1].pc = "done" /\ reqs[1].state = "MODEL_SUCCEEDED"
    /\ reqs[1].rows # <<>>
    /\ reqs[1].kind = "/api/smart-suggest"

\* C15: a step of an advisory request, whatever state it ends in, leaves the
\* rows of the sheet as they were; only the item routes write them.
C15_StoreUnchanged == [][(reqs' # reqs) => (sheet' = sheet)]_vars

\* C15 witness: both routes have answered after reading a sheet that holds a
\* row, and the sheet still holds what they read.
C15_Witness ==
    /\ sheet # <<>>
    /\ \A r \in ReqIds : reqs[r].pc = "done" /\ reqs[r].rows = sheet
    /\ reqs[1].kind # reqs[2].kind

\* The fields of a response that carry text.
TextFields(resp) == DOMAIN resp \ {"urgent", "totalValue", "avgDays"}

\* C16: a failed advisory request sends one response; the message of the
\* error is in no text of it and is on the console; and two requests of one
\* route that failed at the same step with the same inventory were sent the
\* same response, whatever their errors.
C16_NoLeak ==
    \A r \in ReqIds :
       Failed(reqs[r]) =>
          LET e == reqs[r].result[2] IN
          /\ Len(reqs[r].sent) = 1
          /\ \A f \in TextFields(reqs[r].sent[1]) : e \notin Range(reqs[r].sent[1][f])
          /\ \E i \in 1..Len(log) : log[i].message = e
          /\ \A x \in ReqIds :
                (/\ reqs[x].kind = reqs[r].kind
                 /\ reqs[x].state = reqs[r].state
                 /\ reqs[x].inventory = reqs[r].inventory)
                => reqs[x].sent = reqs[r].sent

\* C16 witness: two weekly-plan requests over the same one-row inventory
\* whose generations failed with different errors.
C16_Witness ==
    /\ \A r \in ReqIds : /\ reqs[r].kind = "/api/smart-suggest"
                         /\ reqs[r].state = "MODEL_FAILED"
    /\ reqs[1].inventory = reqs[2].inventory
    /\ reqs[1].inventory # <<>>
    /\ reqs[1].result # reqs[2].result

\* C16 witness of the other step: two general-advice requests whose
\* inventory loads failed with different errors.
C16_LoadWitness ==
    /\ \A r \in ReqIds : /\ reqs[r].kind = "/api/ask-ai"
                         /\ reqs[r].state = "INVENTORY_LOAD_FAILED"
    /\ reqs[1].result # reqs[2].result

====
